---- MODULE Spec2Model ----
(***************************************************************************)
(* Model of the transaction monitoring engine of the Bittensor             *)
(* transaction tracker (src/Backend/get_txs.py, src/Backend/main.py):      *)
(* the classifier, the snapshot cache behind /track, the change detector   *)
(* and the auto-tweet monitor loop.                                        *)
(*                                                                         *)
(* Text values (addresses, extrinsic ids, error messages, URLs) are        *)
(* sequences of one-character strings, so that formatting and substring    *)
(* tests are computed, not assumed.                                        *)
(***************************************************************************)
EXTENDS Integers, Sequences, FiniteSets, TLC

VARIABLES
    now,                      \* time.time(), in whole seconds
    cache,                    \* main.py: cache {"data", "timestamp"}
    last_known_transactions,  \* main.py: last_known_transactions
    classified,               \* harness: one call of classify_transactions
    detected,                 \* harness / loop: the last call of detect_new_transactions
    response,                 \* the last answer of the /track read path
    AUTO_TWEET_SETTINGS,      \* main.py: AUTO_TWEET_SETTINGS
    tweet_history,            \* main.py: tweet_history
    monitoring_task,          \* main.py: monitoring_task (None, or an index of tasks)
    tasks,                    \* every asyncio task of auto_tweet_new_transactions created so far
    twitter,                  \* how the Twitter clients answer at present (one of SinkOutcomes)
    twitter_changes,          \* how often the Twitter clients have changed their answer
    twitter_calls,            \* the calls of the Twitter clients the last post_tweet made
    updated,                  \* the last /auto-tweet/settings request and what it met
    app                       \* "starting" until lifespan's startup part has run

monitor == <<AUTO_TWEET_SETTINGS, tweet_history, monitoring_task, tasks, twitter, twitter_changes, twitter_calls,
             updated, app>>

vars == <<now, cache, last_known_transactions, classified, detected, response,
          AUTO_TWEET_SETTINGS, tweet_history, monitoring_task, tasks, twitter, twitter_changes, twitter_calls,
          updated, app>>

(***************************************************************************)
(* Bounds of the model.                                                    *)
(***************************************************************************)
MaxTx == 2          \* records in one classifier input
MaxBucket == 2      \* records in one bucket handed to the change detector
MaxTime == 602      \* the clock stops here
MaxErrors == 6      \* consecutive_errors is not counted beyond this
MaxCycles == 2      \* successful cycles one loop instance is followed through
MaxTasks == 2       \* loop instances created in one run
MaxPosts == 22      \* calls of post_tweet in a row
MaxSinkChanges == 1 \* changes of the Twitter clients' answer in one run

(***************************************************************************)
(* Program constants.                                                      *)
(***************************************************************************)
cache_duration == 300
max_consecutive_errors == 5

\* config.py is not part of the sources; these stand for its values.
ADDRESS == <<"A">>
TREASURY == <<"T">>
EXTERNAL == <<"X">>

(***************************************************************************)
(* Optional values: None is <<>>, a present value v is <<v>>.              *)
(***************************************************************************)
None == <<>>
Some(v) == <<v>>

(***************************************************************************)
(* Transfer records.  tx["from"] / tx["to"] is an object that is falsy     *)
(* (absent, null or {}), or truthy with or without an "ss58" entry.        *)
(***************************************************************************)
NoInfo == [truthy |-> FALSE, ss58 |-> None]
NoSs58 == [truthy |-> TRUE, ss58 |-> None]
Acct(a) == [truthy |-> TRUE, ss58 |-> Some(a)]

Tx(eid, blk, from, to, amt) ==
    [extrinsic_id |-> eid, block_number |-> blk, from |-> from, to |-> to, amount |-> amt]

(***************************************************************************)
(* get_txs.py: classify_transactions                                       *)
(***************************************************************************)
RECURSIVE page_records(_)
\* the records the two nested loops visit, in order; a falsy page or a page
\* without "data" is the empty sequence and contributes nothing
page_records(transactions) ==
    IF transactions = <<>> THEN <<>>
    ELSE Head(transactions) \o page_records(Tail(transactions))

\* line 67: if not from_info or not to_info: continue
missing_info(tx) == ~tx.from.truthy \/ ~tx.to.truthy

\* mutant: only the source is compared with the treasury
is_treasury_tx_source_only(tx, treasury) == tx.from.ss58 = Some(treasury)

\* line 74: if from_addr == treasury or to_addr == treasury: continue
is_treasury_tx(tx, treasury) ==
    tx.from.ss58 = Some(treasury) \/ tx.to.ss58 = Some(treasury)

\* line 80: if to_addr == tracked_address: transfers_out.append(tx)
goes_to_transfers_out(tx, tracked_address) == tx.to.ss58 = Some(tracked_address)

\* mutant: the second test is an if of its own, not an elif
goes_to_transfers_in_as_well(tx, tracked_address) == tx.from.ss58 = Some(tracked_address)

\* line 82: elif from_addr == tracked_address: transfers_in.append(tx)
goes_to_transfers_in(tx, tracked_address) ==
    /\ ~goes_to_transfers_out(tx, tracked_address)
    /\ tx.from.ss58 = Some(tracked_address)

\* mutant: the call empties the list of pages it was given
pages_after_classify_consumed(transactions) == <<>>

\* lines 57-83: the argument after the call; the function reads the pages
\* and appends the records to its own three lists, nothing of the argument
\* is assigned to
pages_after_classify(transactions) == transactions

\* returns the tuple (filtered, transfers_in, transfers_out) of line 85
classify_transactions(transactions, treasury, tracked_address) ==
    LET filtered == SelectSeq(page_records(transactions),
                        LAMBDA tx : ~missing_info(tx) /\ ~is_treasury_tx(tx, treasury))
        transfers_in == SelectSeq(filtered,
                        LAMBDA tx : goes_to_transfers_in(tx, tracked_address))
        transfers_out == SelectSeq(filtered,
                        LAMBDA tx : goes_to_transfers_out(tx, tracked_address))
    IN  <<filtered, transfers_in, transfers_out>>

(***************************************************************************)
(* main.py: get_transaction_id                                             *)
(* f"{extrinsic_id}_{from.ss58}_{to.ss58}_{amount}" as a character sequence *)
(***************************************************************************)
Digit == <<"0", "1", "2", "3", "4", "5", "6", "7", "8", "9">>

RECURSIVE str_int(_)
\* str() of a non-negative integer
str_int(n) ==
    IF n < 10 THEN <<Digit[n + 1]>>
    ELSE str_int(n \div 10) \o <<Digit[(n % 10) + 1]>>

\* tx.get(k, {}).get('ss58', ''): the address, '' when the object has none
ss58_or_empty(info) == IF info.ss58 = None THEN <<>> ELSE info.ss58[1]

get_transaction_id(tx) ==
    tx.extrinsic_id \o <<"_">> \o ss58_or_empty(tx.from) \o <<"_">>
        \o ss58_or_empty(tx.to) \o <<"_">> \o str_int(tx.amount)

(***************************************************************************)
(* main.py: detect_new_transactions                                        *)
(***************************************************************************)
\* lines 388-389: set(get_transaction_id(tx) for tx in last_known[...])
last_ids(last) == {get_transaction_id(last[i]) : i \in DOMAIN last}

\* mutant: a record counts as known only when the very same record was known
is_new_by_record(tx, last) == \A i \in DOMAIN last : last[i] # tx

\* lines 393-394, 399-400: tx_id not in last_ids
is_new(tx, last) == get_transaction_id(tx) \notin last_ids(last)

RECURSIVE new_transfers_once(_, _)
\* mutant: a key that was appended once is not appended again
new_transfers_once(current, last) ==
    IF current = <<>> THEN <<>>
    ELSE (IF is_new(Head(current), last) THEN <<Head(current)>> ELSE <<>>)
            \o new_transfers_once(Tail(current), Append(last, Head(current)))

RECURSIVE new_transfers(_, _)
\* lines 392-395, 398-401: the loop appending every new record, in order
new_transfers(current, last) ==
    IF current = <<>> THEN <<>>
    ELSE (IF is_new(Head(current), last) THEN <<Head(current)>> ELSE <<>>)
            \o new_transfers(Tail(current), last)

\* mutant: the known records are kept and the current ones added to them
union_last_known(current_in, current_out, lk, t) ==
    [transfers_in |-> lk.transfers_in \o new_transfers(current_in, lk.transfers_in),
     transfers_out |-> lk.transfers_out \o new_transfers(current_out, lk.transfers_out),
     last_check |-> Some(t)]

RECURSIVE known_transfers(_, _)
\* the records of current that are not new
known_transfers(current, last) ==
    IF current = <<>> THEN <<>>
    ELSE (IF is_new(Head(current), last) THEN <<>> ELSE <<Head(current)>>)
            \o known_transfers(Tail(current), last)

\* mutant: the new records are left out of the commit until they are tweeted
updated_last_known_without_new(current_in, current_out, lk, t) ==
    [transfers_in |-> known_transfers(current_in, lk.transfers_in),
     transfers_out |-> known_transfers(current_out, lk.transfers_out),
     last_check |-> Some(t)]

\* lines 404-406: last_known_transactions after the call at time t
updated_last_known(current_in, current_out, lk, t) ==
    [transfers_in |-> current_in, transfers_out |-> current_out, last_check |-> Some(t)]

\* mutant: the state is committed only when something is new
detect_new_transactions_lazy(current_in, current_out, lk, t) ==
    LET new_in == new_transfers(current_in, lk.transfers_in)
        new_out == new_transfers(current_out, lk.transfers_out)
    IN  [new_in |-> new_in, new_out |-> new_out,
         last_known |-> IF new_in = <<>> /\ new_out = <<>> THEN lk
                        ELSE updated_last_known(current_in, current_out, lk, t)]

\* the call: its return value (new_in, new_out) and the state it leaves
detect_new_transactions(current_in, current_out, lk, t) ==
    [new_in |-> new_transfers(current_in, lk.transfers_in),
     new_out |-> new_transfers(current_out, lk.transfers_out),
     last_known |-> updated_last_known(current_in, current_out, lk, t)]

\* what the variable detected records of a call
DetectedCall(phase, current_in, current_out, lk, before, t) ==
    LET d == detect_new_transactions(current_in, current_out, lk, t) IN
    [phase |-> phase, at |-> t,
     before_in |-> before.prior_in, before_out |-> before.prior_out,
     prior_in |-> lk.transfers_in, prior_out |-> lk.transfers_out,
     cur_in |-> current_in, cur_out |-> current_out,
     new_in |-> d.new_in, new_out |-> d.new_out]

(***************************************************************************)
(* get_txs.py: get_all_transfers, the upstream transport.  A call returns  *)
(* the pages, or raises requests.exceptions.HTTPError (raise_for_status)   *)
(* or another exception (connection failure, timeout).                     *)
(***************************************************************************)
\* line 30: the request URL, which carries the address that was asked for
request_url(address) == <<"/", "?">> \o address \o <<"&">>

\* str(e) of the HTTPError of raise_for_status:
\* "<status> ... Error: ... for url: <url>"
http_error_text(status, address) ==
    str_int(status) \o <<" ">> \o request_url(address)

FetchOk(pages) == [kind |-> "ok", pages |-> pages, status |-> 200, text |-> <<>>]

FetchHttpError(status, address) ==
    [kind |-> "http_error", pages |-> <<>>, status |-> status,
     text |-> http_error_text(status, address)]

FetchException == [kind |-> "exception", pages |-> <<>>, status |-> 0, text |-> <<>>]

\* main.py lines 140, 258, 574: "429" in str(e)
has_429(text) ==
    \E i \in 1..(Len(text) - 2) : text[i] = "4" /\ text[i + 1] = "2" /\ text[i + 2] = "9"

(***************************************************************************)
(* main.py: the snapshot cache and the /track read path                    *)
(***************************************************************************)
\* mutant: an entry exactly cache_duration old still counts as valid
is_cache_valid_inclusive(c, t) ==
    /\ c.data # None
    /\ c.timestamp # None
    /\ t - c.timestamp[1] <= cache_duration

\* lines 219-225
is_cache_valid(c, t) ==
    /\ c.data # None
    /\ c.timestamp # None
    /\ t - c.timestamp[1] < cache_duration

\* mutant: an entry with data is reported as valid
cache_status_by_data(c, t) ==
    IF c.timestamp = None THEN [cached |-> FALSE]
    ELSE LET cache_age == t - c.timestamp[1]
             cache_valid == c.data # None
         IN  [cached |-> TRUE,
              cache_valid |-> cache_valid,
              cache_age_seconds |-> cache_age,
              next_refresh_in_seconds |->
                  IF cache_valid /\ cache_duration - cache_age > 0
                  THEN cache_duration - cache_age ELSE 0]

\* lines 175-195: the answer of /cache-status at time t
cache_status(c, t) ==
    IF c.timestamp = None THEN [cached |-> FALSE]
    ELSE LET cache_age == t - c.timestamp[1]
             cache_valid == cache_age < cache_duration
         IN  [cached |-> TRUE,
              cache_valid |-> cache_valid,
              cache_age_seconds |-> cache_age,
              next_refresh_in_seconds |->
                  IF cache_valid /\ cache_duration - cache_age > 0
                  THEN cache_duration - cache_age ELSE 0]

\* lines 240-248
fresh_data(cls) ==
    [summary |-> [total_after_filter |-> Len(cls[1]),
                  transfers_in |-> Len(cls[2]),
                  transfers_out |-> Len(cls[3])],
     transfers_in_raw |-> cls[2],
     transfers_out_raw |-> cls[3]]

Returned(c, data, fetch) == [cache |-> c, returned |-> data, raised |-> 0, fetch |-> fetch]

\* raise HTTPException(status_code = code); code 1 is an exception that is
\* no HTTPException
Raised(c, code, fetch) == [cache |-> c, returned |-> None, raised |-> code, fetch |-> fetch]

\* mutant: the stale fallback restamps the entry
on_http_error_restamping(c, t, outcome) ==
    IF has_429(outcome.text)
    THEN IF c.data # None
         THEN Returned([c EXCEPT !.timestamp = Some(t)], c.data, outcome.kind)
         ELSE Raised(c, 429, outcome.kind)
    ELSE Raised(c, 500, outcome.kind)

\* lines 257-265: except requests.exceptions.HTTPError as e
on_http_error(c, t, outcome) ==
    IF has_429(outcome.text)
    THEN IF c.data # None
         THEN Returned(c, c.data, outcome.kind)
         ELSE Raised(c, 429, outcome.kind)
    ELSE Raised(c, 500, outcome.kind)

\* lines 227-265; outcome is what get_all_transfers does if it is called
get_cached_or_fresh_data(c, t, outcome, address, treasury) ==
    IF is_cache_valid(c, t) THEN Returned(c, c.data, "none")
    ELSE IF outcome.kind = "ok"
    THEN LET data == fresh_data(classify_transactions(outcome.pages, treasury, address))
         IN  Returned([data |-> Some(data), timestamp |-> Some(t)], Some(data), "ok")
    ELSE IF outcome.kind = "http_error" THEN on_http_error(c, t, outcome)
    ELSE Raised(c, 1, outcome.kind)

\* lines 267-281: HTTPException is re-raised, anything else becomes a 500
track_transactions(c, t, outcome, address, treasury) ==
    LET r == get_cached_or_fresh_data(c, t, outcome, address, treasury) IN
    [cache |-> r.cache,
     status |-> IF r.raised = 0 THEN 200 ELSE IF r.raised = 1 THEN 500 ELSE r.raised,
     payload |-> r.returned,
     fetch |-> r.fetch]

(***************************************************************************)
(* The transfers the upstream is taken to know, and what it answers.       *)
(***************************************************************************)
d1 == Tx(<<"e", "1">>, 1, Acct(EXTERNAL), Acct(ADDRESS), 1000000000)
d2 == Tx(<<"e", "1">>, 2, Acct(EXTERNAL), Acct(ADDRESS), 1000000000)
d3 == Tx(<<"e", "_", "2">>, 3, Acct(ADDRESS), Acct(EXTERNAL), 2000000000)
d4 == Tx(<<"e">>, 4, Acct(<<"2", "_", "A">>), Acct(EXTERNAL), 2000000000)

t1 == Tx(<<"e", "0">>, 1, Acct(TREASURY), Acct(ADDRESS), 1000000000)

Feeds ==
    { <<>>,
      << <<t1, d1>> >>,
      << <<d1, d3>> >>,
      << <<d3>>, <<>>, <<d2>> >> }

HttpErrorStatuses == {429, 500}

(***************************************************************************)
(* main.py: post_tweet, the notification dispatch                          *)
(***************************************************************************)
\* what the Twitter clients do when called: API v2 accepts the tweet, or
\* refuses it with a rate-limit error, or fails otherwise and API v1.1 then
\* accepts it, refuses it with a rate-limit error, or fails otherwise
SinkOutcomes == {"v2_ok", "v2_rate_limited", "v1_ok", "v1_rate_limited", "v1_failed"}

\* lines 287-355 and 362-369: the status of the entry that is recorded
tweet_status(settings, sink) ==
    IF settings.test_mode THEN "test_success"
    ELSE IF sink = "v2_ok" THEN "success_v2"
    ELSE IF sink = "v2_rate_limited" THEN "rate_limited"
    ELSE IF sink = "v1_ok" THEN "success_v1"
    ELSE IF sink = "v1_rate_limited" THEN "rate_limited"
    ELSE "failed"

\* mutant: test mode does not keep post_tweet from calling the clients
client_calls_in_test_mode(settings, sink) ==
    IF sink \in {"v2_ok", "v2_rate_limited"} THEN <<"create_tweet">>
    ELSE <<"create_tweet", "update_status">>

\* lines 287, 301 and 334: the calls of the Twitter clients post_tweet makes;
\* update_status is called when create_tweet failed otherwise than by a
\* rate limit
client_calls(settings, sink) ==
    IF settings.test_mode THEN <<>>
    ELSE IF sink \in {"v2_ok", "v2_rate_limited"} THEN <<"create_tweet">>
    ELSE <<"create_tweet", "update_status">>

history_limit == 20

\* mutant: beyond the limit the entry just appended is the one dropped
appended_dropping_newest(history, entry) ==
    LET h == Append(history, entry) IN
    IF Len(h) > history_limit THEN SubSeq(h, 1, history_limit) ELSE h

\* lines 357-360 and 370-373: append, then drop the oldest beyond the limit
appended(history, entry) ==
    LET h == Append(history, entry) IN
    IF Len(h) > history_limit THEN Tail(h) ELSE h

\* mutant: a tweet that both APIs failed to post leaves no entry
post_tweet_unrecorded_failure(history, settings, tweet_text, sink, t) ==
    IF tweet_status(settings, sink) = "failed" THEN history
    ELSE appended(history,
                  [timestamp |-> t, status |-> tweet_status(settings, sink), text |-> tweet_text])

\* lines 284-374: tweet_history after post_tweet(tweet_text) at time t
post_tweet(history, settings, tweet_text, sink, t) ==
    appended(history,
             [timestamp |-> t, status |-> tweet_status(settings, sink), text |-> tweet_text])

(***************************************************************************)
(* main.py: get_daily_transfer_totals and create_transaction_tweet         *)
(***************************************************************************)
\* round(int(amount) / 1e9, 4) in units of 0.0001 TAO (ties to even)
scaled_amount(amount) ==
    LET q == amount \div 100000
        r == amount % 100000
    IN  IF r > 50000 \/ (r = 50000 /\ q % 2 = 1) THEN q + 1 ELSE q

RECURSIVE total_tao(_)
\* lines 429-435: the running sum over one bucket
total_tao(transfers) ==
    IF transfers = <<>> THEN 0
    ELSE scaled_amount(Head(transfers).amount) + total_tao(Tail(transfers))

\* lines 410-443, called with the pages of the cycle; with no pages the
\* function ends in {'tao_in': 0, 'tao_out': 0} on every path
get_daily_transfer_totals(existing_data) ==
    IF existing_data = <<>> THEN [tao_in |-> 0, tao_out |-> 0]
    ELSE LET cls == classify_transactions(existing_data, TREASURY, ADDRESS)
         IN  [tao_in |-> total_tao(cls[2]), tao_out |-> total_tao(cls[3])]

\* lines 445-501: what the tweet text is made of
create_transaction_tweet(tx, direction, daily_totals) ==
    [tx |-> tx, direction |-> direction, daily_totals |-> daily_totals]

(***************************************************************************)
(* main.py: auto_tweet_new_transactions, one asyncio task per call.  A     *)
(* task runs without interruption from one await to the next; at is the    *)
(* await it is suspended at.                                               *)
(***************************************************************************)
\* lines 503-506: a task that was created and has not run yet.
\* failed_in_a_row is no variable of the code: it counts the cycles, since
\* the last one that succeeded or was rate limited, whose fetch failed
\* otherwise.  fetch is what the last call of get_all_transfers did: its
\* kind and the HTTP status.
NewTask ==
    [at |-> "created", consecutive_errors |-> 0, failed_in_a_row |-> 0,
     cancel_requested |-> FALSE, fetch |-> <<"none", 0>>,
     new_in |-> <<>>, new_out |-> <<>>, daily_totals |-> [tao_in |-> 0, tao_out |-> 0],
     plan |-> <<>>, sent |-> <<>>, sleep |-> 0, cycles |-> 0]

\* the coroutine was cancelled or has returned: its frame is gone
finished(task) ==
    [NewTask EXCEPT !.at = "done", !.cycles = task.cycles]

\* lines 586-589: the coroutine has left the loop by break
disabled(task) ==
    [finished(task) EXCEPT !.failed_in_a_row = task.failed_in_a_row]

\* mutant: a task whose cancellation was requested counts as finished
done_or_cancelling(task) == task.at = "done" \/ task.cancel_requested

\* asyncio: Task.done()
done(task) == task.at = "done"

\* the task is about to evaluate the while condition of line 508
AtLoopTop(task) == task.at \in {"created", "sleep_interval", "sleep_backoff"}

Runnable(task) == ~done(task) /\ ~task.cancel_requested

\* transfers[:3] if len(transfers) > 3 else transfers
first_three(transfers) == SubSeq(transfers, 1, IF Len(transfers) > 3 THEN 3 ELSE Len(transfers))

\* one tweet the cycle is going to post and the sleep that follows it
Dispatches(transfers, direction, pause) ==
    [i \in DOMAIN transfers |-> [tx |-> transfers[i], direction |-> direction, pause |-> pause]]

\* line 530: not new_in and not new_out and len(transfers_in) > 0 or len(transfers_out) > 0
tweets_existing(transfers_in, transfers_out, new_in, new_out) ==
    (new_in = <<>> /\ new_out = <<>> /\ Len(transfers_in) > 0) \/ Len(transfers_out) > 0

\* lines 529-565: every tweet of the cycle, in the order the code posts them
cycle_plan(transfers_in, transfers_out, new_in, new_out) ==
    (IF tweets_existing(transfers_in, transfers_out, new_in, new_out)
     THEN Dispatches(first_three(transfers_in), "in", 10)
            \o Dispatches(first_three(transfers_out), "out", 10)
     ELSE <<>>)
    \o Dispatches(new_in, "in", 5) \o Dispatches(new_out, "out", 5)

\* mutant: the interval is the one the process started with
after_cycle_default_interval(task, settings) ==
    IF task.consecutive_errors >= max_consecutive_errors
    THEN [task |-> disabled(task),
          settings |-> [settings EXCEPT !.enabled = FALSE]]
    ELSE [task |-> [task EXCEPT !.at = "sleep_interval",
                                !.sleep = 60 + 30 * task.consecutive_errors],
          settings |-> settings]

\* mutant: the threshold is one failure later
after_cycle_late(task, settings) ==
    IF task.consecutive_errors > max_consecutive_errors
    THEN [task |-> disabled(task),
          settings |-> [settings EXCEPT !.enabled = FALSE]]
    ELSE [task |-> [task EXCEPT !.at = "sleep_interval",
                                !.sleep = settings.check_interval + 30 * task.consecutive_errors],
          settings |-> settings]

\* lines 585-593 for a task whose try block is over: disable and leave, or
\* sleep until the next cycle
after_cycle(task, settings) ==
    IF task.consecutive_errors >= max_consecutive_errors
    THEN [task |-> disabled(task),
          settings |-> [settings EXCEPT !.enabled = FALSE]]
    ELSE [task |-> [task EXCEPT !.at = "sleep_interval",
                                !.sleep = settings.check_interval + 30 * task.consecutive_errors],
          settings |-> settings]

\* post the first tweet of the plan and sleep (lines 536-540, 553-557, ...)
post_next(task) ==
    [task EXCEPT !.at = "sleep_dispatch",
                 !.sleep = Head(task.plan).pause,
                 !.sent = Append(task.sent, Head(task.plan)),
                 !.plan = Tail(task.plan)]

\* mutant: the totals are asked for again, without the pages, for each tweet
next_tweet_text_totals_again(task) ==
    create_transaction_tweet(Head(task.plan).tx, Head(task.plan).direction,
                             get_daily_transfer_totals(<<>>))

\* lines 541, 550, 554, 562: the text of the next tweet of the cycle
next_tweet_text(task) ==
    create_transaction_tweet(Head(task.plan).tx, Head(task.plan).direction, task.daily_totals)

RECURSIVE cycles_run(_)
\* the successful cycles of all loop instances so far
cycles_run(ts) == IF ts = <<>> THEN 0 ELSE Head(ts).cycles + cycles_run(Tail(ts))

\* lines 509-527: fetch and classify succeeded; the task up to its first await
CycleSuccessOn(i, feeds) ==
    /\ app = "serving"
    /\ Runnable(tasks[i]) /\ AtLoopTop(tasks[i])
    /\ AUTO_TWEET_SETTINGS.enabled
    /\ cycles_run(tasks) < MaxCycles
    /\ \E data \in feeds :
        LET cls == classify_transactions(data, TREASURY, ADDRESS)
            transfers_in == cls[2]
            transfers_out == cls[3]
            t == now + 1       \* the clock once the pages have been fetched
            d == detect_new_transactions(transfers_in, transfers_out,
                                         last_known_transactions, t)
            task == [tasks[i] EXCEPT
                        !.consecutive_errors = 0,
                        !.failed_in_a_row = 0,
                        !.fetch = <<"ok", 200>>,
                        !.new_in = d.new_in,
                        !.new_out = d.new_out,
                        !.daily_totals = get_daily_transfer_totals(data),
                        !.plan = cycle_plan(transfers_in, transfers_out, d.new_in, d.new_out),
                        !.sent = <<>>,
                        !.cycles = @ + 1]
        IN  /\ last_known_transactions' = d.last_known
            /\ now' = t
            /\ detected' = DetectedCall(1, transfers_in, transfers_out,
                                        last_known_transactions, detected, t)
            /\ IF task.plan = <<>>
               THEN /\ tasks' = [tasks EXCEPT ![i] = after_cycle(task, AUTO_TWEET_SETTINGS).task]
                    /\ UNCHANGED <<tweet_history, twitter_calls>>
               ELSE /\ tasks' = [tasks EXCEPT ![i] = post_next(task)]
                    /\ tweet_history' = post_tweet(tweet_history, AUTO_TWEET_SETTINGS,
                                                   next_tweet_text(task), twitter, t)
                    /\ twitter_calls' = client_calls(AUTO_TWEET_SETTINGS, twitter)
    /\ UNCHANGED <<twitter, twitter_changes, updated, cache, classified, response, AUTO_TWEET_SETTINGS, monitoring_task, app>>

CycleSuccess(i) == CycleSuccessOn(i, Feeds)

\* the sleep after a tweet is over: the next tweet, or the end of the cycle
DispatchNext(i) ==
    /\ Runnable(tasks[i]) /\ tasks[i].at = "sleep_dispatch"
    /\ IF tasks[i].plan = <<>>
       THEN /\ tasks' = [tasks EXCEPT ![i] = after_cycle(tasks[i], AUTO_TWEET_SETTINGS).task]
            /\ UNCHANGED <<tweet_history, twitter_calls>>
       ELSE /\ tasks' = [tasks EXCEPT ![i] = post_next(tasks[i])]
            /\ tweet_history' = post_tweet(tweet_history, AUTO_TWEET_SETTINGS,
                                           next_tweet_text(tasks[i]), twitter, now)
            /\ twitter_calls' = client_calls(AUTO_TWEET_SETTINGS, twitter)
    /\ UNCHANGED <<twitter, twitter_changes, updated, now, cache, last_known_transactions, classified, detected, response,
                   AUTO_TWEET_SETTINGS, monitoring_task, app>>

\* mutant: the wait grows without a cap
backoff_wait_uncapped(n) == 60 * n

\* line 575: min(300, 60 * consecutive_errors)
backoff_wait(n) == IF 60 * n < 300 THEN 60 * n ELSE 300

\* lines 572-578: HTTPError with "429" in its text: back off and continue
CycleRateLimited(i) ==
    /\ app = "serving"
    /\ Runnable(tasks[i]) /\ AtLoopTop(tasks[i])
    /\ AUTO_TWEET_SETTINGS.enabled
    /\ tasks[i].consecutive_errors < MaxErrors
    /\ \E st \in HttpErrorStatuses :
        /\ has_429(FetchHttpError(st, ADDRESS).text)
        /\ LET n == tasks[i].consecutive_errors + 1
               wait_time == backoff_wait(n)
           IN  tasks' = [tasks EXCEPT ![i].consecutive_errors = n,
                                      ![i].failed_in_a_row = 0,
                                      ![i].fetch = <<"http_error", st>>,
                                      ![i].at = "sleep_backoff",
                                      ![i].sleep = wait_time]
    /\ UNCHANGED <<twitter, twitter_changes, twitter_calls, updated, now, cache, last_known_transactions, classified, detected, response,
                   AUTO_TWEET_SETTINGS, tweet_history, monitoring_task, app>>

\* what both other handlers do: count the error, then lines 585-593
FailedCycle(i, fetch) ==
    LET task == [tasks[i] EXCEPT !.consecutive_errors = @ + 1, !.failed_in_a_row = @ + 1,
                                 !.fetch = fetch]
        r == after_cycle(task, AUTO_TWEET_SETTINGS)
    IN  /\ tasks' = [tasks EXCEPT ![i] = r.task]
        /\ AUTO_TWEET_SETTINGS' = r.settings
        /\ UNCHANGED <<twitter, twitter_changes, twitter_calls, updated, now, cache, last_known_transactions, classified, detected, response,
                       tweet_history, monitoring_task, app>>

\* lines 572-573, 579-580: HTTPError without "429" in its text
CycleHttpError(i) ==
    /\ app = "serving"
    /\ Runnable(tasks[i]) /\ AtLoopTop(tasks[i])
    /\ AUTO_TWEET_SETTINGS.enabled
    /\ tasks[i].consecutive_errors < MaxErrors
    /\ \E st \in HttpErrorStatuses :
        /\ ~has_429(FetchHttpError(st, ADDRESS).text)
        /\ FailedCycle(i, <<"http_error", st>>)

\* lines 581-583: any other exception of the fetch
CycleException(i) ==
    /\ app = "serving"
    /\ Runnable(tasks[i]) /\ AtLoopTop(tasks[i])
    /\ AUTO_TWEET_SETTINGS.enabled
    /\ tasks[i].consecutive_errors < MaxErrors
    /\ FailedCycle(i, <<"exception", 0>>)

\* line 508 with enabled false: the loop ends.  No reachable state enables
\* it: enabled is set to false only by the loop itself, which then leaves by
\* break, and by toggle_auto_tweet, which cancels the task.
LoopExit(i) ==
    /\ Runnable(tasks[i]) /\ AtLoopTop(tasks[i])
    /\ ~AUTO_TWEET_SETTINGS.enabled
    /\ tasks' = [tasks EXCEPT ![i] = finished(tasks[i])]
    /\ UNCHANGED <<twitter, twitter_changes, twitter_calls, updated, now, cache, last_known_transactions, classified, detected, response,
                   AUTO_TWEET_SETTINGS, tweet_history, monitoring_task, app>>

\* mutant: the except Exception of line 581 catches the CancelledError, the
\* loop counts one more error and goes on
CancelSwallowed(i) ==
    /\ ~done(tasks[i]) /\ tasks[i].cancel_requested
    /\ tasks' = [tasks EXCEPT ![i] =
                    [tasks[i] EXCEPT !.cancel_requested = FALSE,
                                     !.consecutive_errors = @ + 1,
                                     !.at = "sleep_interval"]]
    /\ UNCHANGED <<twitter, twitter_changes, twitter_calls, updated, now, cache, last_known_transactions, classified, detected, response,
                   AUTO_TWEET_SETTINGS, tweet_history, monitoring_task, app>>

\* asyncio: a cancelled task gets CancelledError at the await it is suspended
\* at (or before its first step); no handler of the loop catches it
CancelDelivered(i) ==
    /\ ~done(tasks[i]) /\ tasks[i].cancel_requested
    /\ tasks' = [tasks EXCEPT ![i] = finished(tasks[i])]
    /\ UNCHANGED <<twitter, twitter_changes, twitter_calls, updated, now, cache, last_known_transactions, classified, detected, response,
                   AUTO_TWEET_SETTINGS, tweet_history, monitoring_task, app>>

(***************************************************************************)
(* main.py: lifespan (startup part) and toggle_auto_tweet                  *)
(***************************************************************************)
\* asyncio.create_task(auto_tweet_new_transactions())
create_task(ts) == Append(ts, NewTask)

\* lines 93-148: the initial fetch succeeded
StartupFetchedOn(feeds) ==
    /\ app = "starting"
    /\ AUTO_TWEET_SETTINGS.enabled
    /\ \E data \in feeds :
        LET cls == classify_transactions(data, TREASURY, ADDRESS) IN
        last_known_transactions' =
            [transfers_in |-> cls[2], transfers_out |-> cls[3], last_check |-> Some(now)]
    /\ tasks' = create_task(tasks)
    /\ monitoring_task' = Some(Len(tasks'))
    /\ app' = "serving"
    /\ UNCHANGED <<twitter, twitter_changes, twitter_calls, updated, now, cache, classified, detected, response, AUTO_TWEET_SETTINGS,
                   tweet_history>>

StartupFetched == StartupFetchedOn(Feeds)

\* mutant: a failed initial fetch leaves the process without a loop
StartupFetchFailedWithoutLoop ==
    /\ app = "starting"
    /\ AUTO_TWEET_SETTINGS.enabled
    /\ app' = "serving"
    /\ UNCHANGED <<twitter, twitter_changes, twitter_calls, updated, now, cache, last_known_transactions, classified, detected, response,
                   AUTO_TWEET_SETTINGS, tweet_history, tasks, monitoring_task>>

\* lines 139-148: the initial fetch failed, the loop is started all the same
StartupFetchFailed ==
    /\ app = "starting"
    /\ AUTO_TWEET_SETTINGS.enabled
    /\ tasks' = create_task(tasks)
    /\ monitoring_task' = Some(Len(tasks'))
    /\ app' = "serving"
    /\ UNCHANGED <<twitter, twitter_changes, twitter_calls, updated, now, cache, last_known_transactions, classified, detected, response,
                   AUTO_TWEET_SETTINGS, tweet_history>>

\* lines 663-682
toggle_auto_tweet ==
    /\ app = "serving"
    /\ LET enabled == ~AUTO_TWEET_SETTINGS.enabled IN
        /\ AUTO_TWEET_SETTINGS' = [AUTO_TWEET_SETTINGS EXCEPT !.enabled = enabled]
        /\ IF enabled
           THEN IF monitoring_task = None \/ done(tasks[monitoring_task[1]])
                THEN /\ Len(tasks) < MaxTasks
                     /\ tasks' = create_task(tasks)
                     /\ monitoring_task' = Some(Len(tasks'))
                ELSE UNCHANGED <<tasks, monitoring_task>>
           ELSE IF monitoring_task # None /\ ~done(tasks[monitoring_task[1]])
                THEN /\ tasks' = [tasks EXCEPT ![monitoring_task[1]].cancel_requested = TRUE]
                     /\ UNCHANGED monitoring_task
                ELSE UNCHANGED <<tasks, monitoring_task>>
    /\ UNCHANGED <<twitter, twitter_changes, twitter_calls, updated, now, cache, last_known_transactions, classified, detected, response,
                   tweet_history, app>>

(***************************************************************************)
(* The classifier called once on an input drawn from ClassifyInputs.       *)
(***************************************************************************)
Endpoints == {NoInfo, NoSs58, Acct(ADDRESS), Acct(TREASURY), Acct(EXTERNAL)}

ClassifyTxs == {Tx(<<"e">>, 1, f, t, 2000000000) : f \in Endpoints, t \in Endpoints}

SeqsUpTo(S, n) == UNION {[1..k -> S] : k \in 0..n}

\* the records of s on a first page, then a page without data, then the rest
\* and the empty list of pages
ClassifyInputs ==
    {<<>>} \cup
    {<<SubSeq(s, 1, k), <<>>, SubSeq(s, k + 1, Len(s))>> :
        <<s, k>> \in {<<s, k>> \in SeqsUpTo(ClassifyTxs, MaxTx) \X (0..MaxTx) : k <= Len(s)}}

\* classified: the pages given, whether the call and a second call were
\* made, the pages as the first call left them and what each call returned
NotClassified(transactions) ==
    [called |-> FALSE, transactions |-> transactions, result |-> <<<<>>, <<>>, <<>>>>,
     again |-> FALSE, pages_after |-> transactions, second |-> <<<<>>, <<>>, <<>>>>]

NotDetected ==
    [phase |-> 0, at |-> 0, before_in |-> <<>>, before_out |-> <<>>,
     prior_in |-> <<>>, prior_out |-> <<>>, cur_in |-> <<>>, cur_out |-> <<>>,
     new_in |-> <<>>, new_out |-> <<>>]

\* response: the answer of the last /track request (status, payload), with
\* what the request met: the time, the cache before it, whether and how the
\* upstream was called (fetch) and what the upstream answered (upstream)
NoResponse ==
    [n |-> 0, status |-> 0, payload |-> None, fetch |-> "none", upstream |-> 0,
     at |-> 0, before |-> [data |-> None, timestamp |-> None]]

EmptyCache == [data |-> None, timestamp |-> None]

\* main.py lines 35-41
DefaultSettings ==
    [enabled |-> TRUE, check_interval |-> 60, min_amount_tao |-> 0, test_mode |-> FALSE,
     tweet_existing_on_startup |-> FALSE]

\* mutant: any interval that is not negative is accepted
update_auto_tweet_settings_lax(settings, check_interval, min_amount_tao, test_mode) ==
    [settings EXCEPT
        !.check_interval = IF check_interval # None /\ check_interval[1] >= 0
                           THEN check_interval[1] ELSE @,
        !.min_amount_tao = IF min_amount_tao # None /\ min_amount_tao[1] >= 0
                           THEN min_amount_tao[1] ELSE @,
        !.test_mode = IF test_mode # None THEN test_mode[1] ELSE @]

\* main.py lines 684-699: AUTO_TWEET_SETTINGS after the request; every
\* parameter is Optional, None when the request does not carry it
update_auto_tweet_settings(settings, check_interval, min_amount_tao, test_mode) ==
    [settings EXCEPT
        !.check_interval = IF check_interval # None /\ check_interval[1] >= 30
                           THEN check_interval[1] ELSE @,
        !.min_amount_tao = IF min_amount_tao # None /\ min_amount_tao[1] >= 0
                           THEN min_amount_tao[1] ELSE @,
        !.test_mode = IF test_mode # None THEN test_mode[1] ELSE @]

NotUpdated ==
    [n |-> 0, check_interval |-> None, min_amount_tao |-> None, test_mode |-> None,
     before |-> DefaultSettings, status |-> 0]

\* main.py lines 32-61: the monitor's globals once the module is imported
MonitorAtImport ==
    /\ AUTO_TWEET_SETTINGS = DefaultSettings
    /\ tweet_history = <<>>
    /\ monitoring_task = None
    /\ tasks = <<>>
    /\ twitter = "v2_ok"
    /\ twitter_changes = 0
    /\ twitter_calls = <<>>
    /\ updated = NotUpdated
    /\ app = "starting"

\* lines 139-148: the process is serving requests; lifespan's initial fetch
\* failed and the loop instance it created has not run yet
MonitorStarted ==
    /\ AUTO_TWEET_SETTINGS = DefaultSettings
    /\ tweet_history = <<>>
    /\ monitoring_task = Some(1)
    /\ tasks = <<NewTask>>
    /\ twitter = "v2_ok"
    /\ twitter_changes = 0
    /\ twitter_calls = <<>>
    /\ updated = NotUpdated
    /\ app = "serving"

NothingKnown == [transfers_in |-> <<>>, transfers_out |-> <<>>, last_check |-> None]

InitClassify ==
    /\ now = 0
    /\ cache = EmptyCache
    /\ last_known_transactions = NothingKnown
    /\ classified \in {NotClassified(i) : i \in ClassifyInputs}
    /\ detected = NotDetected
    /\ response = NoResponse
    /\ MonitorAtImport

ClassifyCall ==
    /\ ~classified.called
    /\ classified' = [classified EXCEPT !.called = TRUE,
                        !.result = classify_transactions(classified.transactions, TREASURY, ADDRESS),
                        !.pages_after = pages_after_classify(classified.transactions)]
    /\ UNCHANGED <<now, cache, last_known_transactions, detected, response, monitor>>

\* the second call, on the same list object
ClassifyAgain ==
    /\ classified.called /\ ~classified.again
    /\ classified' = [classified EXCEPT !.again = TRUE,
                        !.second = classify_transactions(classified.pages_after, TREASURY, ADDRESS),
                        !.pages_after = pages_after_classify(classified.pages_after)]
    /\ UNCHANGED <<now, cache, last_known_transactions, detected, response, monitor>>

NextClassify == ClassifyCall \/ ClassifyAgain

SpecClassify == InitClassify /\ [][NextClassify]_vars

InSeq(x, s) == \E i \in DOMAIN s : s[i] = x

\* C3 (as claimed): among the records classify keeps, the second returned
\* sequence (inbound) holds exactly those whose destination is the tracked
\* address, and the third (outbound) exactly those whose source is the
\* tracked address and whose destination is not.
C3_InboundIsDestinationTracked ==
    classified.called =>
        \A i \in DOMAIN classified.result[1] :
            LET tx == classified.result[1][i] IN
            /\ InSeq(tx, classified.result[2]) <=> tx.to.ss58 = Some(ADDRESS)
            /\ InSeq(tx, classified.result[3]) <=>
                    (tx.from.ss58 = Some(ADDRESS) /\ tx.to.ss58 # Some(ADDRESS))

\* C4: no record with the treasury address as source or destination is in
\* filtered, inbound or outbound, whatever its other endpoint is.
C4_NoTreasuryRecord ==
    classified.called =>
        \A b \in 1..3 : \A i \in DOMAIN classified.result[b] :
            LET tx == classified.result[b][i] IN
            /\ tx.from.ss58 # Some(TREASURY)
            /\ tx.to.ss58 # Some(TREASURY)

\* C4 witness: the input held a treasury record whose other endpoint is the
\* tracked address next to a record that was kept.
C4_Witness ==
    /\ classified.called
    /\ \E i \in DOMAIN page_records(classified.transactions) :
            LET tx == page_records(classified.transactions)[i] IN
            tx.from.ss58 = Some(TREASURY) /\ tx.to.ss58 = Some(ADDRESS)
    /\ Len(page_records(classified.transactions)) = 2
    /\ Len(classified.result[1]) = 1

(***************************************************************************)
(* The change detector called on buckets drawn from BucketPairs, from any  *)
(* last known state an earlier call can have left, and then called again   *)
(* with the same buckets.                                                  *)
(***************************************************************************)
DetectTxs == {d1, d2, d3, d4}

BucketPairs ==
    {p \in SeqsUpTo(DetectTxs, MaxBucket) \X SeqsUpTo(DetectTxs, MaxBucket) :
        Len(p[1]) + Len(p[2]) <= MaxBucket}

InitDetect ==
    /\ now = 1
    /\ cache = EmptyCache
    /\ last_known_transactions \in
            {[transfers_in |-> p[1], transfers_out |-> p[2],
              last_check |-> IF p = <<<<>>, <<>>>> THEN None ELSE Some(0)] : p \in BucketPairs}
    /\ classified = NotClassified(<<>>)
    /\ detected = NotDetected
    /\ response = NoResponse
    /\ MonitorAtImport

DetectCall ==
    /\ detected.phase = 0
    /\ \E p \in BucketPairs :
        /\ detected' = DetectedCall(1, p[1], p[2], last_known_transactions, detected, now)
        /\ last_known_transactions' =
                detect_new_transactions(p[1], p[2], last_known_transactions, now).last_known
    /\ now' = now + 1
    /\ UNCHANGED <<cache, classified, response, monitor>>

\* the next call, with the same buckets
DetectAgain ==
    /\ detected.phase = 1
    /\ detected' = DetectedCall(2, detected.cur_in, detected.cur_out,
                                last_known_transactions, detected, now)
    /\ last_known_transactions' =
            detect_new_transactions(detected.cur_in, detected.cur_out,
                                    last_known_transactions, now).last_known
    /\ now' = now + 1
    /\ UNCHANGED <<cache, classified, response, monitor>>

\* the next call, with the buckets that were known before the first call:
\* what was present, then absent, is present again
DetectReappear ==
    /\ detected.phase = 1
    /\ detected' = DetectedCall(3, detected.prior_in, detected.prior_out,
                                last_known_transactions, detected, now)
    /\ last_known_transactions' =
            detect_new_transactions(detected.prior_in, detected.prior_out,
                                    last_known_transactions, now).last_known
    /\ now' = now + 1
    /\ UNCHANGED <<cache, classified, response, monitor>>

NextDetect == DetectCall \/ DetectAgain \/ DetectReappear

SpecDetect == InitDetect /\ [][NextDetect]_vars

\* the indices of current whose identity key no record of prior has
FreshIndices(current, prior) ==
    {i \in DOMAIN current :
        \A j \in DOMAIN prior : get_transaction_id(prior[j]) # get_transaction_id(current[i])}

\* new is current restricted to the indices in I, in the order of current
IsRestriction(new, current, I) ==
    /\ Len(new) = Cardinality(I)
    /\ \A i \in I : new[Cardinality({k \in I : k <= i})] = current[i]

\* C5: a call returns, for each direction, exactly the current records whose
\* identity key is absent from the prior bucket of that direction, in the
\* current order; a second call with the same buckets returns nothing.
C5_DetectNew ==
    /\ detected.phase >= 1 =>
        /\ IsRestriction(detected.new_in, detected.cur_in,
                         FreshIndices(detected.cur_in, detected.prior_in))
        /\ IsRestriction(detected.new_out, detected.cur_out,
                         FreshIndices(detected.cur_out, detected.prior_out))
    /\ detected.phase = 2 => detected.new_in = <<>> /\ detected.new_out = <<>>

\* C5 witness: d1 was known; the first call, on <<d2, d3>>, left out d2 (a
\* different record with the key of d1); the second call, on the same
\* buckets, returned nothing.
C5_Witness ==
    /\ detected.phase = 2
    /\ detected.before_in = <<d1>>
    /\ detected.cur_in = <<d2, d3>>
    /\ detected.prior_in = <<d2, d3>>
    /\ detected.new_in = <<>> /\ detected.new_out = <<>>

\* C6: every call leaves last_known_transactions equal to exactly the current
\* buckets, stamped with the time of the call, whether or not anything was
\* new; so a record known before, absent from the next call's bucket and
\* present again in the call after it is returned as new by that call.
C6_FullReplace ==
    detected.phase >= 1 =>
        /\ last_known_transactions.transfers_in = detected.cur_in
        /\ last_known_transactions.transfers_out = detected.cur_out
        /\ last_known_transactions.last_check = Some(detected.at)
        /\ detected.phase = 3 =>
            /\ \A i \in DOMAIN detected.cur_in :
                    get_transaction_id(detected.cur_in[i]) \notin last_ids(detected.prior_in)
                        => InSeq(detected.cur_in[i], detected.new_in)
            /\ \A i \in DOMAIN detected.cur_out :
                    get_transaction_id(detected.cur_out[i]) \notin last_ids(detected.prior_out)
                        => InSeq(detected.cur_out[i], detected.new_out)

\* C6 witness: d1 was known, the next buckets held d3 only, and the call
\* after that, holding d1 and d3, returned d1 alone as new.
C6_Witness ==
    /\ detected.phase = 3
    /\ detected.before_in = <<d1>> /\ detected.before_out = <<d3>>
    /\ detected.prior_in = <<>> /\ detected.prior_out = <<d3>>
    /\ detected.cur_in = <<d1>> /\ detected.cur_out = <<d3>>
    /\ detected.new_in = <<d1>> /\ detected.new_out = <<>>
    /\ last_known_transactions.transfers_in = <<d1>>
    /\ last_known_transactions.last_check = Some(2)

(***************************************************************************)
(* The read path: /track requests at the times the clock reaches, against  *)
(* an upstream that answers with any feed or fails.                        *)
(***************************************************************************)
\* the address parameter of /track: the configured one, or one a caller gives
RequestAddresses == {ADDRESS, <<"A", "4", "2", "9">>}

TickSteps == {cache_duration \div 2, cache_duration - 1, cache_duration + 1}

InitCache ==
    /\ now = 0
    /\ cache = EmptyCache
    /\ last_known_transactions = NothingKnown
    /\ classified = NotClassified(<<>>)
    /\ detected = NotDetected
    /\ response = NoResponse
    /\ MonitorStarted

Tick ==
    /\ \E d \in TickSteps : now + d <= MaxTime /\ now' = now + d
    /\ UNCHANGED <<cache, last_known_transactions, classified, detected, response, monitor>>

\* mutant: a request that fetched commits the buckets as the loop does
TrackCommitting(address, outcome) ==
    LET r == track_transactions(cache, now, outcome, address, TREASURY) IN
    /\ cache' = r.cache
    /\ response' = [n |-> 1 + (response.n % 2), status |-> r.status, payload |-> r.payload,
                     fetch |-> r.fetch,
                     upstream |-> IF r.fetch = "none" THEN 0 ELSE outcome.status,
                     at |-> now, before |-> cache]
    /\ last_known_transactions' =
            IF r.fetch = "ok"
            THEN [transfers_in |-> r.payload[1].transfers_in_raw,
                  transfers_out |-> r.payload[1].transfers_out_raw,
                  last_check |-> Some(now)]
            ELSE last_known_transactions
    /\ UNCHANGED <<now, classified, detected, monitor>>

\* one /track request served; the handler runs without suspending
Track(address, outcome) ==
    LET r == track_transactions(cache, now, outcome, address, TREASURY) IN
    /\ cache' = r.cache
    /\ response' = [n |-> 1 + (response.n % 2), status |-> r.status, payload |-> r.payload,
                     fetch |-> r.fetch,
                     upstream |-> IF r.fetch = "none" THEN 0 ELSE outcome.status,
                     at |-> now, before |-> cache]
    /\ UNCHANGED <<now, last_known_transactions, classified, detected, monitor>>

TrackOk == \E a \in RequestAddresses, f \in Feeds : Track(a, FetchOk(f))

TrackHttpError ==
    \E a \in RequestAddresses, st \in HttpErrorStatuses : Track(a, FetchHttpError(st, a))

TrackException == \E a \in RequestAddresses : Track(a, FetchException)

NextCache == Tick \/ TrackOk \/ TrackHttpError \/ TrackException

SpecCache == InitCache /\ [][NextCache]_vars

\* C7: a read less than ttl after the entry was stored returns that very
\* payload without a fetch; a read ttl or more after it invokes the fetch.
C7_Freshness ==
    (response.n # 0 /\ response.before.data # None) =>
        LET age == response.at - response.before.timestamp[1] IN
        /\ age < cache_duration =>
            /\ response.fetch = "none"
            /\ response.status = 200
            /\ response.payload = response.before.data
        /\ age >= cache_duration => response.fetch # "none"

\* C7 witness: a read at t0 + ttl - 1 was served from the cache.
C7_Witness ==
    /\ response.n # 0
    /\ response.before.data # None
    /\ response.at - response.before.timestamp[1] = cache_duration - 1
    /\ response.fetch = "none"
    /\ response.payload = response.before.data

\* the upstream was called and answered the request with HTTP 429
Throttled == response.fetch = "http_error" /\ response.upstream = 429

\* C8 (as claimed): a throttled fetch returns the prior payload when there is
\* one and raises the rate-limited condition when there is none; and the
\* read path raises that condition only when the cache is empty and the
\* upstream is throttling.
C8_RateLimitedOnlyWhenEmptyAndThrottled ==
    response.n # 0 =>
        /\ (Throttled /\ response.before.data # None) =>
                response.status = 200 /\ response.payload = response.before.data
        /\ (Throttled /\ response.before.data = None) => response.status = 429
        /\ response.status = 429 => (Throttled /\ response.before.data = None)

\* C9 (as claimed): a fetch that fails with anything but throttling gives
\* the caller a generic failure, never the stale payload.
C9_NoStaleOnOtherFailure ==
    (response.n # 0 /\ response.fetch \in {"http_error", "exception"} /\ ~Throttled) =>
        response.status = 500 /\ response.payload = None

\* C10: the cache entry changes only in a read whose fetch and classify
\* succeeded, which stores the payload it returns with the time of the read;
\* every other read leaves payload and timestamp as they were.
C10_CacheWrittenOnSuccessOnly ==
    [][/\ cache' # cache => (response'.n # response.n /\ response'.fetch = "ok")
       /\ (response'.n # response.n /\ response'.fetch = "ok") =>
            cache' = [data |-> response'.payload, timestamp |-> Some(now)]
       /\ (response'.n # response.n /\ response'.fetch # "ok") => cache' = cache]_vars

\* C10 witness: a stale fallback (throttled fetch, prior payload returned)
\* after which the entry is what it was before the read.
C10_Witness ==
    /\ Throttled
    /\ response.status = 200
    /\ response.before.data # None
    /\ response.payload = response.before.data
    /\ cache = response.before

(***************************************************************************)
(* The monitor loop: startup and the loop instance it creates, against an  *)
(* upstream that answers every fetch with any feed or any failure.         *)
(***************************************************************************)
InitLoop ==
    /\ now = 0
    /\ cache = EmptyCache
    /\ last_known_transactions = NothingKnown
    /\ classified = NotClassified(<<>>)
    /\ detected = NotDetected
    /\ response = NoResponse
    /\ MonitorAtImport

NextLoop ==
    \/ StartupFetched
    \/ StartupFetchFailed
    \/ \E i \in DOMAIN tasks : CycleSuccess(i)
    \/ \E i \in DOMAIN tasks : DispatchNext(i)
    \/ \E i \in DOMAIN tasks : CycleRateLimited(i)
    \/ \E i \in DOMAIN tasks : CycleHttpError(i)
    \/ \E i \in DOMAIN tasks : CycleException(i)

SpecLoop == InitLoop /\ [][NextLoop]_vars

\* C1 (as claimed): a loop instance whose consecutive_errors has reached the
\* threshold has left the loop and auto-tweeting is disabled, whatever kind
\* of failure raised the counter.
C1_DisabledAtThreshold ==
    \A i \in DOMAIN tasks :
        tasks[i].consecutive_errors >= max_consecutive_errors =>
            done(tasks[i]) /\ ~AUTO_TWEET_SETTINGS.enabled

\* the records and directions of a sequence of dispatches
Posted(items) == [k \in DOMAIN items |-> <<items[k].tx, items[k].direction>>]

IsPrefix(a, b) == Len(a) <= Len(b) /\ a = SubSeq(b, 1, Len(a))

\* C2 (as claimed): the tweets of a successful cycle are one per record that
\* detect_new_transactions returned, the new incoming ones in order and then
\* the new outgoing ones, and no record that was in last_known_transactions
\* before the cycle is tweeted.
C2_OnlyNewDispatched ==
    \A i \in DOMAIN tasks :
        LET task == tasks[i]
            expected == Posted(Dispatches(task.new_in, "in", 5))
                            \o Posted(Dispatches(task.new_out, "out", 5))
        IN  /\ IsPrefix(Posted(task.sent), expected)
            /\ task.plan = <<>> => Posted(task.sent) = expected
            /\ \A k \in DOMAIN task.sent :
                    /\ ~InSeq(task.sent[k].tx, detected.prior_in)
                    /\ ~InSeq(task.sent[k].tx, detected.prior_out)

(***************************************************************************)
(* The monitor loop with /auto-tweet/toggle requests served at any await   *)
(* of the loop, and the cancellation a toggle-off asks for delivered at    *)
(* any later moment.                                                       *)
(***************************************************************************)
\* what the upstream answers here: no transfer, or one in each direction,
\* or an HTTP error (the failures that are no HTTP error are handled as the
\* HTTP errors without "429" are)
ToggleFeeds == {<<>>, << <<d1, d3>> >>}

NextToggle ==
    \/ StartupFetchedOn(ToggleFeeds)
    \/ StartupFetchFailed
    \/ \E i \in DOMAIN tasks : CycleSuccessOn(i, ToggleFeeds)
    \/ \E i \in DOMAIN tasks : DispatchNext(i)
    \/ \E i \in DOMAIN tasks : CycleRateLimited(i)
    \/ \E i \in DOMAIN tasks : CycleHttpError(i)
    \/ toggle_auto_tweet
    \/ \E i \in DOMAIN tasks : CancelDelivered(i)

SpecToggle == InitLoop /\ [][NextToggle]_vars

\* the loop instances whose coroutine has not ended
NotDone == {i \in DOMAIN tasks : tasks[i].at # "done"}

\* a step of toggle_auto_tweet that switches auto-tweeting on / off
ToggledOn == ~AUTO_TWEET_SETTINGS.enabled /\ AUTO_TWEET_SETTINGS'.enabled
ToggledOff ==
    /\ AUTO_TWEET_SETTINGS.enabled /\ ~AUTO_TWEET_SETTINGS'.enabled
    /\ \A i \in DOMAIN tasks : done(tasks'[i]) = done(tasks[i])

\* C11: at every moment at most one loop instance has not finished, and a
\* toggle-on that finds an instance not finished creates no instance.
C11_AtMostOneInstance ==
    /\ [](Cardinality(NotDone) <= 1)
    /\ [][(ToggledOn /\ NotDone # {}) => tasks' = tasks]_vars

\* C11 witness: the first instance has ended, a toggle-on has created the
\* second one, which is in a cycle, and auto-tweeting is on.
C11_Witness ==
    /\ Len(tasks) = 2
    /\ done(tasks[1])
    /\ tasks[2].at = "sleep_dispatch"
    /\ monitoring_task = Some(2)
    /\ AUTO_TWEET_SETTINGS.enabled

\* C12 (as claimed): after every toggle that switches auto-tweeting on, a
\* loop instance is running with consecutive_errors 0; after every toggle
\* that switches it off, no instance runs a further cycle.
C12_ToggleOnStartsLoop ==
    /\ [][ToggledOn =>
            \E i \in DOMAIN tasks' :
                Runnable(tasks'[i]) /\ tasks'[i].consecutive_errors = 0]_vars
    /\ [][ToggledOff => \A i \in DOMAIN tasks' : ~Runnable(tasks'[i])]_vars
    /\ [](~AUTO_TWEET_SETTINGS.enabled => \A i \in DOMAIN tasks : ~Runnable(tasks[i]))

\* C13: a loop instance that is still running never has five failed
\* fetches in a row (other than rate limiting) behind it: the fifth ends it
\* and switches auto-tweeting off.  An instance that has ended does nothing
\* further, and no instance is created except by a toggle that switches
\* auto-tweeting on.
C13_FiveFailuresDisable ==
    /\ [](\A i \in DOMAIN tasks :
            /\ tasks[i].at # "done" => tasks[i].failed_in_a_row < max_consecutive_errors
            /\ tasks[i].failed_in_a_row >= max_consecutive_errors =>
                    tasks[i].at = "done" /\ tasks[i].plan = <<>>)
    /\ [][\A i \in DOMAIN tasks :
            /\ (tasks[i].failed_in_a_row < max_consecutive_errors
                    /\ tasks'[i].failed_in_a_row >= max_consecutive_errors)
                => ~AUTO_TWEET_SETTINGS'.enabled
            /\ tasks[i].at = "done" =>
                /\ tasks'[i] = tasks[i]
                /\ (monitoring_task = Some(i) /\ ~ToggledOn) =>
                        (last_known_transactions' = last_known_transactions
                            /\ tweet_history' = tweet_history
                            /\ tasks' = tasks)]_vars
    /\ [][Len(tasks') > Len(tasks) => (app = "starting" \/ ToggledOn)]_vars

\* C13 witness: the first instance has ended after five failed fetches in a
\* row, auto-tweeting is off and no other instance exists.
C13_Witness ==
    /\ Len(tasks) = 1
    /\ tasks[1].at = "done"
    /\ tasks[1].failed_in_a_row = max_consecutive_errors
    /\ ~AUTO_TWEET_SETTINGS.enabled

\* a step in which loop instance i has fetched and classified successfully
LoopCommit(i) == tasks'[i].cycles = tasks[i].cycles + 1

\* C14: once the process serves, last_known_transactions changes only in a
\* step in which a loop instance has fetched and classified successfully;
\* that step sets it, once, to the buckets of that cycle, stamped with the
\* time of the call.  Failed cycles, dispatches, toggles and cancellations
\* at any sleep leave it equal to the buckets of the last such cycle.
C14_CommitOnSuccessOnly ==
    /\ [][/\ (app = "serving" /\ last_known_transactions' # last_known_transactions)
                => \E i \in DOMAIN tasks : LoopCommit(i)
          /\ \A i \in DOMAIN tasks : LoopCommit(i) =>
                /\ last_known_transactions' # last_known_transactions
                /\ last_known_transactions' =
                        [transfers_in |-> detected'.cur_in,
                         transfers_out |-> detected'.cur_out,
                         last_check |-> Some(now')]]_vars
    /\ [](detected.phase # 0 =>
            /\ last_known_transactions.transfers_in = detected.cur_in
            /\ last_known_transactions.transfers_out = detected.cur_out
            /\ last_known_transactions.last_check = Some(detected.at))

\* C14 witness: the first instance committed <<d3>>, <<d1>> in its only
\* cycle and was cancelled during the sleep after its first tweet; the
\* second instance has since had a failed fetch.
C14_Witness ==
    /\ Len(tasks) = 2
    /\ tasks[1].at = "done" /\ tasks[1].cycles = 1 /\ tasks[1].failed_in_a_row = 0
    /\ tasks[2].cycles = 0 /\ tasks[2].consecutive_errors = 1
    /\ detected.phase = 1
    /\ last_known_transactions =
            [transfers_in |-> <<d3>>, transfers_out |-> <<d1>>, last_check |-> Some(1)]

(***************************************************************************)
(* /auto-tweet/settings requests, one after the other, each carrying any   *)
(* of the three parameters.                                                *)
(***************************************************************************)
IntervalInputs == {None, Some(0), Some(29), Some(30), Some(120)}
AmountInputs == {None, Some(0 - 1), Some(0), Some(5)}
TestModeInputs == {None, Some(TRUE), Some(FALSE)}

\* one request served; the handler has no await and raises nothing
UpdateSettingsOn(intervals, amounts, test_modes) ==
    \E ci \in intervals, ma \in amounts, tm \in test_modes :
        /\ AUTO_TWEET_SETTINGS' = update_auto_tweet_settings(AUTO_TWEET_SETTINGS, ci, ma, tm)
        /\ updated' = [n |-> 1 + (updated.n % 2), check_interval |-> ci, min_amount_tao |-> ma,
                       test_mode |-> tm, before |-> AUTO_TWEET_SETTINGS, status |-> 200]
        /\ UNCHANGED <<now, cache, last_known_transactions, classified, detected, response,
                       tweet_history, monitoring_task, tasks, twitter, twitter_changes, twitter_calls, app>>

UpdateSettings == UpdateSettingsOn(IntervalInputs, AmountInputs, TestModeInputs)

NextSettings == UpdateSettings

SpecSettings == InitCache /\ [][NextSettings]_vars

\* C15: check_interval is never below 30 and min_amount_tao never negative.
\* A request answers 200; each parameter it carries within its range is
\* applied, and a parameter that is absent, an interval below 30 and a
\* negative minimum amount leave their setting as it was before the request.
C15_SettingsBounds ==
    /\ AUTO_TWEET_SETTINGS.check_interval >= 30
    /\ AUTO_TWEET_SETTINGS.min_amount_tao >= 0
    /\ updated.n # 0 =>
        /\ updated.status = 200
        /\ AUTO_TWEET_SETTINGS.check_interval =
                IF updated.check_interval # None /\ updated.check_interval[1] >= 30
                THEN updated.check_interval[1] ELSE updated.before.check_interval
        /\ AUTO_TWEET_SETTINGS.min_amount_tao =
                IF updated.min_amount_tao # None /\ updated.min_amount_tao[1] >= 0
                THEN updated.min_amount_tao[1] ELSE updated.before.min_amount_tao
        /\ AUTO_TWEET_SETTINGS.test_mode =
                IF updated.test_mode # None THEN updated.test_mode[1]
                ELSE updated.before.test_mode
        /\ AUTO_TWEET_SETTINGS.enabled = updated.before.enabled

\* C15 witness: a request with interval 29, minimum amount 5 and test mode
\* on, after the interval had been set to 120: the interval is still 120 and
\* the two other settings are the ones of the request.
C15_Witness ==
    /\ updated.n # 0
    /\ updated.check_interval = Some(29)
    /\ updated.min_amount_tao = Some(5)
    /\ updated.test_mode = Some(TRUE)
    /\ updated.before.check_interval = 120
    /\ updated.before.min_amount_tao = 0
    /\ AUTO_TWEET_SETTINGS.check_interval = 120
    /\ AUTO_TWEET_SETTINGS.min_amount_tao = 5
    /\ AUTO_TWEET_SETTINGS.test_mode

(***************************************************************************)
(* post_tweet called again and again, one call per second, with the        *)
(* Twitter clients answering in one of their ways and test mode on or off. *)
(***************************************************************************)
\* the text of the call at time t: the two transfers in turn
TweetTextAt(t) ==
    IF t % 2 = 0
    THEN create_transaction_tweet(d1, "out", [tao_in |-> 0, tao_out |-> 0])
    ELSE create_transaction_tweet(d3, "in", [tao_in |-> 0, tao_out |-> 0])

InitHistory ==
    /\ now = 0
    /\ cache = EmptyCache
    /\ last_known_transactions = NothingKnown
    /\ classified = NotClassified(<<>>)
    /\ detected = NotDetected
    /\ response = NoResponse
    /\ AUTO_TWEET_SETTINGS \in {[DefaultSettings EXCEPT !.test_mode = b] : b \in BOOLEAN}
    /\ tweet_history = <<>>
    /\ monitoring_task = None
    /\ tasks = <<>>
    /\ twitter \in SinkOutcomes
    /\ twitter_changes = 0
    /\ twitter_calls = <<>>
    /\ updated = NotUpdated
    /\ app = "serving"

PostTweet ==
    /\ now < MaxPosts
    /\ tweet_history' = post_tweet(tweet_history, AUTO_TWEET_SETTINGS, TweetTextAt(now),
                                   twitter, now)
    /\ twitter_calls' = client_calls(AUTO_TWEET_SETTINGS, twitter)
    /\ now' = now + 1
    /\ UNCHANGED <<cache, last_known_transactions, classified, detected, response,
                   AUTO_TWEET_SETTINGS, monitoring_task, tasks, twitter, twitter_changes, updated,
                   app>>

NextHistory == PostTweet

SpecHistory == InitHistory /\ [][NextHistory]_vars

\* C16: after n calls of post_tweet the history holds the entries of the
\* last min(n, 20) calls, oldest first: never more than 20, and the entry
\* dropped by a call beyond the 20th is the oldest one.
C16_HistoryFifo ==
    LET n == now
        len == IF n < history_limit THEN n ELSE history_limit
    IN  /\ Len(tweet_history) <= history_limit
        /\ Len(tweet_history) = len
        /\ \A k \in DOMAIN tweet_history :
                tweet_history[k] =
                    [timestamp |-> n - len + k - 1,
                     status |-> tweet_status(AUTO_TWEET_SETTINGS, twitter),
                     text |-> TweetTextAt(n - len + k - 1)]

\* C16 witness: the 21st call has returned: 20 entries, the first of which
\* is the one of the second call.
C16_Witness ==
    /\ now = history_limit + 1
    /\ Len(tweet_history) = history_limit
    /\ tweet_history[1].timestamp = 1
    /\ tweet_history[history_limit].timestamp = history_limit

(***************************************************************************)
(* The monitor loop against Twitter clients that answer in any of their    *)
(* ways, and change their way at any moment.                               *)
(***************************************************************************)
InitSink ==
    /\ now = 0
    /\ cache = EmptyCache
    /\ last_known_transactions = NothingKnown
    /\ classified = NotClassified(<<>>)
    /\ detected = NotDetected
    /\ response = NoResponse
    /\ AUTO_TWEET_SETTINGS = DefaultSettings
    /\ tweet_history = <<>>
    /\ monitoring_task = None
    /\ tasks = <<>>
    /\ twitter \in SinkOutcomes
    /\ twitter_changes = 0
    /\ twitter_calls = <<>>
    /\ updated = NotUpdated
    /\ app = "starting"

\* the Twitter clients start to answer in another way
SinkChanges ==
    /\ twitter_changes < MaxSinkChanges
    /\ twitter_changes' = twitter_changes + 1
    /\ \E o \in SinkOutcomes : o # twitter /\ twitter' = o
    /\ UNCHANGED <<now, cache, last_known_transactions, classified, detected, response,
                   AUTO_TWEET_SETTINGS, tweet_history, monitoring_task, tasks, twitter_calls,
                   updated, app>>

\* the fetches of the loop succeed or fail with an HTTP error without "429",
\* the failure that counts towards the threshold
NextSink ==
    \/ StartupFetchedOn(ToggleFeeds)
    \/ StartupFetchFailed
    \/ \E i \in DOMAIN tasks : CycleSuccessOn(i, ToggleFeeds)
    \/ \E i \in DOMAIN tasks : DispatchNext(i)
    \/ \E i \in DOMAIN tasks : CycleHttpError(i)
    \/ SinkChanges

SpecSink == InitSink /\ [][NextSink]_vars

\* a step in which loop instance i calls post_tweet
Dispatching(i) ==
    \/ Len(tasks'[i].sent) = Len(tasks[i].sent) + 1
    \/ LoopCommit(i) /\ tasks'[i].sent # <<>>

SinkFailed(status) == status \in {"rate_limited", "failed"}

IsSuffix(a, b) == Len(a) <= Len(b) /\ a = SubSeq(b, Len(b) - Len(a) + 1, Len(b))

\* C17: every dispatch of the loop, failed ones included, adds exactly one
\* entry to the history, with the status of the attempt, and leaves the
\* instance in its cycle with consecutive_errors at 0; and when the cycle is
\* over every new record has been dispatched, whatever the sink answered.
C17_SinkFailureNotFatal ==
    /\ [][\A i \in DOMAIN tasks : Dispatching(i) =>
            /\ Len(tweet_history') = Len(tweet_history) + 1
            /\ SubSeq(tweet_history', 1, Len(tweet_history)) = tweet_history
            /\ tweet_history'[Len(tweet_history')].status =
                    tweet_status(AUTO_TWEET_SETTINGS, twitter)
            /\ tweet_history'[Len(tweet_history')].text.tx =
                    tasks'[i].sent[Len(tasks'[i].sent)].tx
            /\ tasks'[i].at = "sleep_dispatch"
            /\ tasks'[i].consecutive_errors = 0
            /\ AUTO_TWEET_SETTINGS'.enabled]_vars
    /\ [](\A i \in DOMAIN tasks :
            (tasks[i].at = "sleep_interval" /\ tasks[i].cycles > 0) =>
                /\ tasks[i].plan = <<>>
                /\ IsSuffix(Posted(Dispatches(tasks[i].new_in, "in", 5))
                                \o Posted(Dispatches(tasks[i].new_out, "out", 5)),
                            Posted(tasks[i].sent)))

\* C17 witness: a cycle with a new record in each direction is over; every
\* tweet of it failed or was rate limited; both new records were dispatched
\* and the instance sleeps until the next cycle, its error counter at 0.
C17_Witness ==
    /\ Len(tasks) = 1
    /\ tasks[1].at = "sleep_interval"
    /\ tasks[1].consecutive_errors = 0
    /\ tasks[1].new_in = <<d3>> /\ tasks[1].new_out = <<d1>>
    /\ Len(tasks[1].sent) = 4
    /\ Len(tweet_history) = 4
    /\ tweet_history[3].status = "failed"
    /\ tweet_history[4].status = "rate_limited"
    /\ \A k \in DOMAIN tweet_history : SinkFailed(tweet_history[k].status)

\* C18 (as claimed): a record that lacks the ss58 address of its source or
\* of its destination, because the from / to object is absent or empty or
\* because the object has no ss58 entry, is in none of the three sequences
\* classify returns.
C18_SkipsMissingIdentifier ==
    classified.called =>
        \A b \in 1..3 : \A i \in DOMAIN classified.result[b] :
            LET tx == classified.result[b][i] IN
            tx.from.ss58 # None /\ tx.to.ss58 # None

\* how often x occurs in s
Count(x, s) == Cardinality({i \in DOMAIN s : s[i] = x})

\* C19: for every record of the input, its occurrences are never in both
\* buckets, and those in a bucket are in filtered too; a record from the
\* tracked address to the tracked address is only in the bucket of the
\* destination test (the third sequence returned); a record with both
\* endpoint objects, no treasury endpoint and no tracked endpoint is in
\* filtered and in neither bucket.
C19_BucketsDisjoint ==
    classified.called =>
        LET input == page_records(classified.transactions)
            filtered == classified.result[1]
            second == classified.result[2]
            third == classified.result[3]
        IN  /\ \A b \in 1..3 : \A i \in DOMAIN classified.result[b] :
                    InSeq(classified.result[b][i], input)
            /\ \A i \in DOMAIN input :
                LET tx == input[i] IN
                /\ Count(tx, second) = 0 \/ Count(tx, third) = 0
                /\ Count(tx, second) + Count(tx, third) <= Count(tx, filtered)
                /\ Count(tx, filtered) <= Count(tx, input)
                /\ (tx.from.ss58 = Some(ADDRESS) /\ tx.to.ss58 = Some(ADDRESS)) =>
                        Count(tx, third) = Count(tx, input) /\ Count(tx, second) = 0
                /\ (/\ tx.from.truthy /\ tx.to.truthy
                    /\ tx.from.ss58 # Some(TREASURY) /\ tx.to.ss58 # Some(TREASURY)
                    /\ tx.from.ss58 # Some(ADDRESS) /\ tx.to.ss58 # Some(ADDRESS)) =>
                        /\ Count(tx, filtered) = Count(tx, input)
                        /\ Count(tx, second) = 0 /\ Count(tx, third) = 0

\* C19 witness: the input held a record from the tracked address to itself
\* and a record between two other accounts; both are in filtered, the first
\* one in the third sequence only, the other one in no bucket.
C19_Witness ==
    /\ classified.called
    /\ Len(classified.result[1]) = 2
    /\ classified.result[1][1].from.ss58 = Some(ADDRESS)
    /\ classified.result[1][1].to.ss58 = Some(ADDRESS)
    /\ classified.result[1][2].from.ss58 = Some(EXTERNAL)
    /\ classified.result[1][2].to.ss58 = Some(EXTERNAL)
    /\ classified.result[2] = <<>>
    /\ classified.result[3] = <<classified.result[1][1]>>

\* the four fields the identity key is made of are equal
SameFourFields(a, b) ==
    /\ a.extrinsic_id = b.extrinsic_id
    /\ a.from.ss58 = b.from.ss58
    /\ a.to.ss58 = b.to.ss58
    /\ a.amount = b.amount

\* C20 (as claimed): a record of the current bucket and a record of the
\* prior bucket have the same identity key exactly when their extrinsic id,
\* source address, destination address and amount are all equal.
C20_KeyInjective ==
    detected.phase >= 1 =>
        /\ \A i \in DOMAIN detected.cur_in, j \in DOMAIN detected.prior_in :
                (get_transaction_id(detected.cur_in[i]) = get_transaction_id(detected.prior_in[j]))
                    <=> SameFourFields(detected.cur_in[i], detected.prior_in[j])
        /\ \A i \in DOMAIN detected.cur_out, j \in DOMAIN detected.prior_out :
                (get_transaction_id(detected.cur_out[i]) = get_transaction_id(detected.prior_out[j]))
                    <=> SameFourFields(detected.cur_out[i], detected.prior_out[j])

FetchStep(i) ==
    /\ AtLoopTop(tasks[i]) /\ ~tasks[i].cancel_requested
    /\ tasks'[i] # tasks[i]

\* C22: a fetch answered with HTTP 429 raises consecutive_errors by one, to
\* n, and puts the instance to sleep for min(300, 60 * n) seconds, never
\* more than 300, without a call of the change detector and without a tweet;
\* the step after that sleep is the next fetch.
C22_ThrottledBackoff ==
    /\ [][\A i \in DOMAIN tasks :
            (FetchStep(i) /\ tasks'[i].fetch = <<"http_error", 429>>) =>
                LET n == tasks[i].consecutive_errors + 1 IN
                /\ tasks'[i].consecutive_errors = n
                /\ tasks'[i].at = "sleep_backoff"
                /\ tasks'[i].sleep = IF 60 * n < 300 THEN 60 * n ELSE 300
                /\ tasks'[i].sleep <= 300
                /\ tasks'[i].cycles = tasks[i].cycles
                /\ tasks'[i].sent = tasks[i].sent /\ tasks'[i].plan = tasks[i].plan
                /\ last_known_transactions' = last_known_transactions
                /\ detected' = detected
                /\ tweet_history' = tweet_history]_vars
    /\ [][\A i \in DOMAIN tasks :
            (tasks[i].at = "sleep_backoff" /\ tasks'[i] # tasks[i]) =>
                /\ tasks'[i].fetch # <<"none", 0>> \/ tasks'[i].at = "done"
                /\ \/ tasks'[i].cycles = tasks[i].cycles + 1
                   \/ tasks'[i].consecutive_errors = tasks[i].consecutive_errors + 1
                   \/ tasks'[i].failed_in_a_row = tasks[i].failed_in_a_row + 1]_vars

\* C22 witness: the sixth HTTP 429 in a row: the instance sleeps 300 s, not
\* 360, and nothing was detected or tweeted.
C22_Witness ==
    /\ Len(tasks) = 1
    /\ tasks[1].at = "sleep_backoff"
    /\ tasks[1].fetch = <<"http_error", 429>>
    /\ tasks[1].consecutive_errors = 6
    /\ tasks[1].sleep = 300
    /\ tasks[1].cycles = 0
    /\ tweet_history = <<>>

(***************************************************************************)
(* The monitor loop with /auto-tweet/settings requests that change the     *)
(* check interval served at any await of the loop.                         *)
(***************************************************************************)
NextTiming ==
    \/ StartupFetchedOn(ToggleFeeds)
    \/ StartupFetchFailed
    \/ \E i \in DOMAIN tasks : CycleSuccessOn(i, ToggleFeeds)
    \/ \E i \in DOMAIN tasks : DispatchNext(i)
    \/ \E i \in DOMAIN tasks : CycleRateLimited(i)
    \/ \E i \in DOMAIN tasks : CycleHttpError(i)
    \/ \E i \in DOMAIN tasks : CycleException(i)
    \/ UpdateSettingsOn({Some(30), Some(120)}, {None}, {None})

SpecTiming == InitLoop /\ [][NextTiming]_vars

\* the step of loop instance i after which it sleeps until its next cycle
CycleEnds(i) == tasks'[i] # tasks[i] /\ tasks'[i].at = "sleep_interval"

NotThrottled(fetch) == fetch[1] = "exception" \/ (fetch[1] = "http_error" /\ fetch[2] # 429)

\* C23: a successful fetch sets consecutive_errors to 0, and the sleep after
\* such a cycle is check_interval as it is when the sleep begins; a failed
\* fetch (not rate limited) that raises consecutive_errors to n < 5 is
\* followed by a sleep of check_interval + 30 * n.
C23_IntervalSleep ==
    /\ [][\A i \in DOMAIN tasks :
            /\ (FetchStep(i) /\ tasks'[i].fetch = <<"ok", 200>>) =>
                    tasks'[i].consecutive_errors = 0
            /\ (FetchStep(i) /\ NotThrottled(tasks'[i].fetch)) =>
                    /\ tasks'[i].consecutive_errors = tasks[i].consecutive_errors + 1
                    /\ tasks'[i].consecutive_errors < max_consecutive_errors
                    /\ CycleEnds(i)
            /\ CycleEnds(i) =>
                    /\ tasks'[i].sleep = AUTO_TWEET_SETTINGS'.check_interval
                                            + 30 * tasks'[i].consecutive_errors
                    /\ tasks'[i].fetch = <<"ok", 200>> =>
                            tasks'[i].sleep = AUTO_TWEET_SETTINGS'.check_interval
                    /\ tasks'[i].plan = <<>>]_vars
    /\ [](\A i \in DOMAIN tasks :
            tasks[i].at = "sleep_dispatch" => tasks[i].consecutive_errors = 0)

\* C23 witness: the interval was changed from 60 to 120; a cycle that tweeted
\* is over and the instance sleeps 120 s, its error counter at 0.
C23_Witness ==
    /\ Len(tasks) = 1
    /\ tasks[1].at = "sleep_interval"
    /\ tasks[1].fetch = <<"ok", 200>>
    /\ tasks[1].sent # <<>>
    /\ tasks[1].consecutive_errors = 0
    /\ tasks[1].sleep = 120
    /\ updated.check_interval = Some(120) /\ updated.before.check_interval = 60
    /\ AUTO_TWEET_SETTINGS.check_interval = 120

\* the totals over the two buckets the last change detection has seen
CurrentTotals(known) ==
    [tao_in |-> total_tao(known.transfers_in), tao_out |-> total_tao(known.transfers_out)]

\* C24: a successful cycle computes the pair of daily totals from its own
\* pages in the step that fetches them, before any tweet; every tweet of the
\* cycle carries that pair, and the steps that post the later tweets fetch
\* nothing and leave the pair alone.
C24_TotalsOncePerCycle ==
    /\ [][\A i \in DOMAIN tasks :
            /\ (FetchStep(i) /\ tasks'[i].fetch = <<"ok", 200>>) =>
                    tasks'[i].daily_totals = CurrentTotals(last_known_transactions')
            /\ Dispatching(i) =>
                    tweet_history'[Len(tweet_history')].text.daily_totals
                        = tasks'[i].daily_totals
            /\ (Dispatching(i) /\ ~FetchStep(i)) =>
                    /\ tasks'[i].daily_totals = tasks[i].daily_totals
                    /\ tasks'[i].fetch = tasks[i].fetch
                    /\ tasks'[i].cycles = tasks[i].cycles
                    /\ now' = now
                    /\ cache' = cache
                    /\ last_known_transactions' = last_known_transactions]_vars
    /\ [](\A i \in DOMAIN tasks : \A k \in 1..Len(tasks[i].sent) :
            LET j == Len(tweet_history) - Len(tasks[i].sent) + k IN
            (Len(tasks) = 1 /\ j >= 1) =>
                /\ tweet_history[j].text.daily_totals = tasks[i].daily_totals
                /\ tweet_history[j].text.tx = tasks[i].sent[k].tx)

\* C24 witness: a cycle over one record in each bucket has posted two tweets,
\* both with the totals of that cycle.
C24_Witness ==
    /\ Len(tasks) = 1
    /\ Len(tasks[1].sent) = 2
    /\ tasks[1].plan = <<>>
    /\ tasks[1].daily_totals = [tao_in |-> 20000, tao_out |-> 10000]
    /\ Len(tweet_history) >= 2
    /\ tweet_history[Len(tweet_history)].text.daily_totals = tasks[1].daily_totals
    /\ tweet_history[Len(tweet_history) - 1].text.daily_totals = tasks[1].daily_totals

\* C25: a loop instance whose cancellation was requested can end at whatever
\* await it is suspended at, and the only step it takes is the one that ends
\* it: no fetch, no change detection, no tweet, no error counted, the enabled
\* flag not touched.
C25_CancelEndsLoop ==
    /\ [](\A i \in DOMAIN tasks :
            (tasks[i].cancel_requested /\ tasks[i].at # "done") =>
                /\ tasks[i].at \in {"created", "sleep_interval", "sleep_backoff", "sleep_dispatch"}
                /\ ENABLED CancelDelivered(i))
    /\ [][\A i \in DOMAIN tasks :
            (tasks[i].cancel_requested /\ tasks'[i] # tasks[i]) =>
                /\ tasks'[i].at = "done"
                /\ tasks'[i].consecutive_errors = 0
                /\ tasks'[i].failed_in_a_row = 0
                /\ tasks'[i].cycles = tasks[i].cycles
                /\ last_known_transactions' = last_known_transactions
                /\ detected' = detected
                /\ tweet_history' = tweet_history
                /\ now' = now
                /\ AUTO_TWEET_SETTINGS' = AUTO_TWEET_SETTINGS]_vars
    /\ [][\A i \in DOMAIN tasks : tasks[i].at = "done" => tasks'[i] = tasks[i]]_vars

\* C25 witness: the first instance was cancelled in the delay after the first
\* tweet of a cycle that had two to post; it has ended, the second tweet was
\* never posted.
C25_Witness ==
    /\ Len(tasks) = 1
    /\ tasks[1].at = "done"
    /\ tasks[1].cycles = 1
    /\ tasks[1].failed_in_a_row = 0
    /\ ~AUTO_TWEET_SETTINGS.enabled
    /\ Len(last_known_transactions.transfers_in) = 1
    /\ Len(last_known_transactions.transfers_out) = 1
    /\ Len(tweet_history) = 1

\* a step in which post_tweet is called, from the loop or, with no loop, by
\* itself
PostStep ==
    \/ \E i \in DOMAIN tasks : Dispatching(i)
    \/ tasks = <<>> /\ now' = now + 1

\* the entries of h that are still in g, which may have lost its oldest
Kept(h, g) == IF Len(g) = Len(h) + 1 THEN h ELSE Tail(h)

\* C26: every call of post_tweet appends exactly one entry, whose status is
\* the outcome of the attempt; in test mode no Twitter client is called and
\* the status is test_success; the entries that were there are the same
\* afterwards, but for the oldest when the history held 20.
C26_OneEntryPerAttempt ==
    /\ [][PostStep =>
            LET n == Len(tweet_history')
                entry == tweet_history'[n] IN
            /\ n = IF Len(tweet_history) < history_limit
                   THEN Len(tweet_history) + 1 ELSE history_limit
            /\ SubSeq(tweet_history', 1, n - 1) = Kept(tweet_history, tweet_history')
            /\ entry.status \in {"success_v2", "success_v1", "rate_limited",
                                 "test_success", "failed"}
            /\ AUTO_TWEET_SETTINGS.test_mode <=> entry.status = "test_success"
            /\ AUTO_TWEET_SETTINGS.test_mode => twitter_calls' = <<>>
            /\ ~AUTO_TWEET_SETTINGS.test_mode => twitter_calls' # <<>>]_vars
    /\ [][~PostStep => tweet_history' = tweet_history /\ twitter_calls' = twitter_calls]_vars

\* C26 witness: in test mode, with Twitter clients that would fail, 21 calls
\* were made: 20 entries, all test_success, no client called.
C26_Witness ==
    /\ AUTO_TWEET_SETTINGS.test_mode
    /\ twitter = "v1_failed"
    /\ now = history_limit + 1
    /\ Len(tweet_history) = history_limit
    /\ \A k \in DOMAIN tweet_history : tweet_history[k].status = "test_success"
    /\ twitter_calls = <<>>

\* a /track request is served in this step
ReadStep == response'.n # response.n

\* the request of this step met a failed fetch and returned the cached data
StaleFallbackStep ==
    ReadStep /\ response'.fetch = "http_error" /\ response'.status = 200

\* the entry holds data that is cache_duration old or older
NotFresh(c, t) ==
    c.data # None /\ c.timestamp # None /\ t - c.timestamp[1] >= cache_duration

\* C27: a stale fallback leaves the entry as it was, timestamp included, so
\* the entry is still not fresh and /cache-status answers cached with
\* cache_valid false; and while the entry is not fresh every /track request
\* calls the upstream, the entry staying as it is until a fetch succeeds.
C27_StaleStaysStale ==
    /\ [][StaleFallbackStep =>
            /\ NotFresh(cache, now)
            /\ cache' = cache
            /\ response'.payload = cache.data
            /\ NotFresh(cache', now')
            /\ cache_status(cache', now').cached
            /\ ~cache_status(cache', now').cache_valid
            /\ cache_status(cache', now').next_refresh_in_seconds = 0]_vars
    /\ [][NotFresh(cache, now) =>
            /\ ReadStep => response'.fetch # "none"
            /\ \/ cache' = cache /\ NotFresh(cache', now')
               \/ /\ ReadStep /\ response'.fetch = "ok"
                  /\ cache'.timestamp = Some(now)]_vars

\* C27 witness: a request that met an entry older than cache_duration called
\* the upstream, was rate limited and returned the cached data; the entry is
\* the one it met, and /cache-status says cached and not valid.
C27_Witness ==
    /\ response.n = 2
    /\ response.fetch = "http_error"
    /\ response.upstream = 429
    /\ response.status = 200
    /\ response.before = cache
    /\ NotFresh(cache, now)
    /\ now - cache.timestamp[1] > cache_duration + 1
    /\ cache_status(cache, now).cached /\ ~cache_status(cache, now).cache_valid

(***************************************************************************)
(* The monitor loop and /track requests served at any await of the loop.   *)
(***************************************************************************)
NextFrame ==
    \/ StartupFetchedOn(ToggleFeeds)
    \/ StartupFetchFailed
    \/ \E i \in DOMAIN tasks : CycleSuccessOn(i, ToggleFeeds)
    \/ \E i \in DOMAIN tasks : DispatchNext(i)
    \/ \E i \in DOMAIN tasks : CycleRateLimited(i)
    \/ \E i \in DOMAIN tasks : CycleHttpError(i)
    \/ \E f \in ToggleFeeds : Track(ADDRESS, FetchOk(f))
    \/ \E st \in HttpErrorStatuses : Track(ADDRESS, FetchHttpError(st, ADDRESS))

SpecFrame == InitLoop /\ [][NextFrame]_vars

\* a step of the startup or of a loop instance
LoopStep == tasks' # tasks

\* what a cycle over the pages of feed would report as new, given known
ReportedNew(feed, known) ==
    LET cls == classify_transactions(feed, TREASURY, ADDRESS)
        d == detect_new_transactions(cls[2], cls[3], known, now)
    IN  <<d.new_in, d.new_out>>

\* C28: no step of the startup or of the loop changes the cache entry, and
\* no /track request, whether it fetches or not, changes
\* last_known_transactions or what a following cycle would report as new.
C28_CacheAndKnownApart ==
    /\ [][LoopStep => cache' = cache /\ response' = response]_vars
    /\ [][last_known_transactions' # last_known_transactions => LoopStep]_vars
    /\ [][ReadStep =>
            /\ last_known_transactions' = last_known_transactions
            /\ detected' = detected
            /\ tasks' = tasks
            /\ \A f \in ToggleFeeds :
                    ReportedNew(f, last_known_transactions')
                        = ReportedNew(f, last_known_transactions)]_vars

\* C28 witness: the startup fetch failed; a /track request then fetched and
\* cached a transfer in each direction; the first cycle of the loop, after
\* it, reported both as new and left the cache entry as the request wrote it.
C28_Witness ==
    /\ Len(tasks) = 1
    /\ tasks[1].cycles = 1
    /\ Len(tasks[1].new_in) = 1 /\ Len(tasks[1].new_out) = 1
    /\ response.fetch = "ok"
    /\ response.at < now
    /\ response.payload # None
    /\ response.payload[1].summary.total_after_filter = 2
    /\ cache = [data |-> response.payload, timestamp |-> Some(response.at)]

Known(tx) ==
    \/ InSeq(tx, last_known_transactions.transfers_in)
    \/ InSeq(tx, last_known_transactions.transfers_out)

\* C29: the step in which a cycle detects its new records has committed them
\* all, so during every delay between two tweets the records still to be
\* tweeted are in last_known_transactions; and a cycle of any instance, a
\* restarted one included, that meets the buckets of the last commit reports
\* nothing as new.
C29_CommitBeforeDispatch ==
    /\ [][\A i \in DOMAIN tasks : LoopCommit(i) =>
            /\ \A k \in DOMAIN tasks'[i].new_in :
                    InSeq(tasks'[i].new_in[k], last_known_transactions'.transfers_in)
            /\ \A k \in DOMAIN tasks'[i].new_out :
                    InSeq(tasks'[i].new_out[k], last_known_transactions'.transfers_out)
            /\ (/\ detected'.cur_in = last_known_transactions.transfers_in
                /\ detected'.cur_out = last_known_transactions.transfers_out) =>
                    tasks'[i].new_in = <<>> /\ tasks'[i].new_out = <<>>]_vars
    /\ [](\A i \in DOMAIN tasks : tasks[i].at = "sleep_dispatch" =>
            /\ \A k \in DOMAIN tasks[i].plan : Known(tasks[i].plan[k].tx)
            /\ \A k \in DOMAIN tasks[i].new_in : Known(tasks[i].new_in[k])
            /\ \A k \in DOMAIN tasks[i].new_out : Known(tasks[i].new_out[k]))

\* C29 witness: the startup fetch failed; the first instance found a new
\* record in each direction, was cancelled in the delay after its first
\* tweet and has ended; the second instance, over the same upstream data,
\* has reported nothing as new.
C29_Witness ==
    /\ Len(tasks) = 2
    /\ tasks[1].at = "done" /\ tasks[1].cycles = 1
    /\ tasks[2].cycles = 1 /\ tasks[2].at = "sleep_dispatch"
    /\ tasks[2].new_in = <<>> /\ tasks[2].new_out = <<>>
    /\ detected.prior_in = detected.cur_in /\ Len(detected.cur_in) = 1
    /\ detected.prior_out = detected.cur_out /\ Len(detected.cur_out) = 1
    /\ Len(tweet_history) = 2
    /\ tweet_history[1].timestamp = 1
    /\ tweet_history[2].timestamp = 2

\* the buckets of feed, as the startup commits them at time t
StartupKnown(feed, t) ==
    LET cls == classify_transactions(feed, TREASURY, ADDRESS) IN
    [transfers_in |-> cls[2], transfers_out |-> cls[3], last_check |-> Some(t)]

\* C30: the startup ends with one loop instance created, its coroutine not
\* yet run, and last_known_transactions either the buckets of the pages the
\* initial fetch returned or, when that fetch failed, still empty.  The
\* first successful cycle then reports nothing as new when it meets the
\* buckets the startup committed, and every record of both buckets when
\* the startup committed nothing.
C30_StartupInitialises ==
    /\ [][(app = "starting" /\ app' = "serving") =>
            /\ tasks' = <<NewTask>>
            /\ monitoring_task' = Some(1)
            /\ tweet_history' = <<>>
            /\ \/ last_known_transactions' = NothingKnown
               \/ \E f \in Feeds : last_known_transactions' = StartupKnown(f, now)]_vars
    /\ [](\A i \in DOMAIN tasks : tasks[i].cycles = 0 =>
            \/ last_known_transactions = NothingKnown
            \/ \E f \in Feeds : last_known_transactions = StartupKnown(f, 0))
    /\ [][\A i \in DOMAIN tasks : (LoopCommit(i) /\ tasks[i].cycles = 0) =>
            /\ last_known_transactions = NothingKnown =>
                    /\ tasks'[i].new_in = detected'.cur_in
                    /\ tasks'[i].new_out = detected'.cur_out
            /\ (/\ last_known_transactions.last_check # None
                /\ detected'.cur_in = last_known_transactions.transfers_in
                /\ detected'.cur_out = last_known_transactions.transfers_out) =>
                    tasks'[i].new_in = <<>> /\ tasks'[i].new_out = <<>>]_vars

\* C30 witness: the first successful cycle of the loop met nothing known and
\* has reported the one record of each bucket as new.
C30_Witness ==
    /\ Len(tasks) = 1
    /\ tasks[1].cycles = 1
    /\ tasks[1].at = "sleep_dispatch"
    /\ detected.prior_in = <<>> /\ detected.prior_out = <<>>
    /\ Len(detected.cur_in) = 1 /\ Len(detected.cur_out) = 1
    /\ tasks[1].new_in = detected.cur_in
    /\ tasks[1].new_out = detected.cur_out
    /\ last_known_transactions.transfers_in = detected.cur_in

(***************************************************************************)
(* The startup and the loop against an upstream whose pages hold the same  *)
(* transfer more than once.                                                *)
(***************************************************************************)
\* no transfer; d1 alone; d3 twice on one page and d1 with d2, which has its
\* key, on the next; d1 twice and d3 on one page
RepeatFeeds ==
    { <<>>,
      << <<d1>> >>,
      << <<d3, d3>>, <<d1, d2>> >>,
      << <<d1, d1, d3>> >> }

NextRepeats ==
    \/ StartupFetchedOn(RepeatFeeds)
    \/ StartupFetchFailed
    \/ \E i \in DOMAIN tasks : CycleSuccessOn(i, RepeatFeeds)
    \/ \E i \in DOMAIN tasks : DispatchNext(i)

SpecRepeats == InitLoop /\ [][NextRepeats]_vars

\* the occurrences in s of records with the key id
CountKey(id, s) == Cardinality({k \in DOMAIN s : get_transaction_id(s[k]) = id})

RepeatKeys == {get_transaction_id(tx) : tx \in {d1, d2, d3}}

\* the tweets among items that announce, as new, a record with the key id
CountNewTweets(id, direction, items) ==
    Cardinality({k \in DOMAIN items :
                    /\ get_transaction_id(items[k].tx) = id
                    /\ items[k].direction = direction
                    /\ items[k].pause = 5})

\* C31: of a key that is not in the known bucket every occurrence in the
\* current bucket is returned as new, of a key that is in it none; and when
\* the cycle is over each returned occurrence has had its tweet.
C31_NoDedupWithinBucket ==
    /\ [][\A i \in DOMAIN tasks : LoopCommit(i) =>
            \A id \in RepeatKeys :
                /\ CountKey(id, tasks'[i].new_in) =
                        IF id \in last_ids(last_known_transactions.transfers_in) THEN 0
                        ELSE CountKey(id, detected'.cur_in)
                /\ CountKey(id, tasks'[i].new_out) =
                        IF id \in last_ids(last_known_transactions.transfers_out) THEN 0
                        ELSE CountKey(id, detected'.cur_out)]_vars
    /\ [](\A i \in DOMAIN tasks :
            (tasks[i].at = "sleep_interval" /\ tasks[i].cycles > 0) =>
                \A id \in RepeatKeys :
                    /\ CountNewTweets(id, "in", tasks[i].sent) = CountKey(id, tasks[i].new_in)
                    /\ CountNewTweets(id, "out", tasks[i].sent) = CountKey(id, tasks[i].new_out)
                    /\ CountNewTweets(id, "in", tasks[i].sent) =
                            IF id \in last_ids(detected.prior_in) THEN 0
                            ELSE CountKey(id, detected.cur_in)
                    /\ CountNewTweets(id, "out", tasks[i].sent) =
                            IF id \in last_ids(detected.prior_out) THEN 0
                            ELSE CountKey(id, detected.cur_out))

\* C31 witness: nothing was known of the bucket that now holds d3 twice, and
\* d1 was known in the bucket that now holds d1 and d2; the cycle is over,
\* d3 was returned and tweeted as new twice, d1 and d2 not at all.
C31_Witness ==
    /\ Len(tasks) = 1
    /\ tasks[1].at = "sleep_interval"
    /\ detected.cur_in = <<d3, d3>> /\ detected.prior_in = <<>>
    /\ detected.cur_out = <<d1, d2>> /\ InSeq(d1, detected.prior_out)
    /\ tasks[1].new_in = <<d3, d3>>
    /\ tasks[1].new_out = <<>>
    /\ CountNewTweets(get_transaction_id(d3), "in", tasks[1].sent) = 2
    /\ CountNewTweets(get_transaction_id(d1), "out", tasks[1].sent) = 0

====
